---- MODULE Spec2Model ----
(***************************************************************************)
(* Split-flap drum controller (splitflap-controller.ino).                  *)
(*                                                                         *)
(* The controller tracks the flap facing the viewer (currentPosition) and  *)
(* whether that position is trusted (isHomed).  It drives a stepper motor  *)
(* forward and reads one hall sensor.  The sensor line is an input of the  *)
(* environment: it may take any value after the motor has moved.           *)
(*                                                                         *)
(* Every blocking operation is cut at the places where the code reads the  *)
(* sensor, so that each reading can differ from the previous one.          *)
(***************************************************************************)
EXTENDS Integers, Sequences, FiniteSets, TLC

(***************************************************************************)
(* Program constants.                                                      *)
(***************************************************************************)
NUM_FLAPS == 40
HOME_POSITION == 2

\* Motor steps per flap.  A calibration value: 51 in the unipolar variant,
\* 48 in the step/direction variant.  The model takes it as a parameter and
\* checks with a small value; every loop bound below is derived from it.
STEPS_PER_FLAP == 2

\* " ABCDEFGHIJKLMNOPQRSTUVWXYZ0123456789.-?!" as character codes, with the
\* terminating NUL of the C string literal.
CHARACTERS ==
    <<32>> \o [k \in 1..26 |-> 64 + k] \o [k \in 1..10 |-> 47 + k]
           \o <<46, 45, 63, 33>> \o <<0>>

\* sizeof(CHARACTERS) - 1
NUM_CHARACTERS == Len(CHARACTERS) - 1

(***************************************************************************)
(* Bounds of the model.                                                    *)
(***************************************************************************)
\* The loop counter of a move is kept exactly up to MaxIter.
MaxIter == 80

\* Targets a P command is tried with: all valid ones and some on each side.
TargetInputs == (0 - 2) .. (NUM_FLAPS + 1)

\* Bytes a G command is tried with.
CharInputs == 0 .. 127

(***************************************************************************)
(* Pure helpers.                                                           *)
(***************************************************************************)
\* The % of C: the quotient is truncated toward zero.
CRem(a, b) == IF a >= 0 THEN a % b ELSE 0 - ((0 - a) % b)

Sat(n) == IF n > MaxIter THEN MaxIter ELSE n

\* Mutants of maxSteps: one revolution only; three revolutions.
maxStepsOneTurn == STEPS_PER_FLAP * NUM_FLAPS

maxStepsThreeTurns == STEPS_PER_FLAP * NUM_FLAPS * 3

\* int maxSteps = STEPS_PER_FLAP * NUM_FLAPS * 2;
maxSteps == STEPS_PER_FLAP * NUM_FLAPS * 2

\* currentPosition as advanceOneFlap leaves it.
AdvancePosition(p) == IF p >= 0 THEN CRem(p + 1, NUM_FLAPS) ELSE p

\* Mutants of FlapsToMove.
FlapsToMoveNoWrap(t, p) == CRem(t - p, NUM_FLAPS)

FlapsToMoveFullTurn(t, p) ==
    IF CRem(t - p + NUM_FLAPS, NUM_FLAPS) = 0
    THEN NUM_FLAPS
    ELSE CRem(t - p + NUM_FLAPS, NUM_FLAPS)

\* (targetPosition - currentPosition + NUM_FLAPS) % NUM_FLAPS
FlapsToMove(t, p) == CRem(t - p + NUM_FLAPS, NUM_FLAPS)

\* Mutants of ResyncBound.
ResyncBoundShort(ii, t) == ii + FlapsToMove(t, HOME_POSITION)

ResyncBoundFromStart(ii, t) == FlapsToMove(t, HOME_POSITION)

\* flapsToMove after a re-sync in iteration ii: i + 1 + remaining.
ResyncBound(ii, t) == ii + 1 + FlapsToMove(t, HOME_POSITION)

\* Mutants of Precheck.
PrecheckRangeFirst(homed, t) ==
    IF t < 0 \/ t >= NUM_FLAPS THEN "PositionOutOfRange"
    ELSE IF ~homed THEN "NotHomed"
    ELSE "ok"

PrecheckNoHomed(homed, t) ==
    IF t < 0 \/ t >= NUM_FLAPS THEN "PositionOutOfRange" ELSE "ok"

PrecheckOffByOne(homed, t) ==
    IF ~homed THEN "NotHomed"
    ELSE IF t < 0 \/ t > NUM_FLAPS THEN "PositionOutOfRange"
    ELSE "ok"

\* The two early returns of goToPosition, in the order of the code.
Precheck(homed, t) ==
    IF ~homed THEN "NotHomed"
    ELSE IF t < 0 \/ t >= NUM_FLAPS THEN "PositionOutOfRange"
    ELSE "ok"

\* Mutant of ToUpper: no normalisation.
ToUpperNone(c) == c

\* Case normalisation of goToCharacter.
ToUpper(c) == IF c >= 97 /\ c <= 122 THEN c - 97 + 65 ELSE c

\* The lookup loop of goToCharacter from index k on: first match or -1.
RECURSIVE FindFrom(_, _)
FindFrom(c, k) ==
    IF k >= NUM_CHARACTERS THEN 0 - 1
    ELSE IF CHARACTERS[k + 1] = c THEN k
    ELSE FindFrom(c, k + 1)

\* Mutant of FindCharacter: the index starts at 0 instead of -1.
FindCharacterOrZero(c) == IF FindFrom(c, 0) < 0 THEN 0 ELSE FindFrom(c, 0)

FindCharacter(c) == FindFrom(c, 0)

\* What showStatus prints for the character: CHARACTERS[currentPosition],
\* or nothing (-1) when the position is unknown.
StatusCharacter(p) == IF p >= 0 THEN CHARACTERS[p + 1] ELSE 0 - 1

\* What showStatus prints for the position: the number, or "Unknown" (-1).
StatusPosition(p) == IF p >= 0 THEN p ELSE 0 - 1

\* Mutant of StatusReport: the sensor value is not read at the call.
StatusReportStale(homed, p, s) ==
    [homed |-> homed, position |-> StatusPosition(p),
     character |-> StatusCharacter(p), sensor |-> FALSE]

\* The lines of showStatus that depend on the state; s is the value
\* isAtHome() returns inside it.
StatusReport(homed, p, s) ==
    [homed |-> homed, position |-> StatusPosition(p),
     character |-> StatusCharacter(p), sensor |-> s]

\* The drum is not followed.
NoDrum == [index |-> 0, drift0 |-> 0]

\* Nothing printed by showStatus.
NoReport ==
    [homed |-> FALSE, position |-> 0 - 2, character |-> 0 - 2,
     sensor |-> FALSE]

\* Mutant of ExitSteps: one flap only.
ExitStepsOneFlap == STEPS_PER_FLAP

\* moveSteps(STEPS_PER_FLAP * 2) of homeDisplay.
ExitSteps == STEPS_PER_FLAP * 2

\* Mutant of OvershootContinues: one unit too many.
OvershootContinuesOneMore(s, n) == s /\ n <= STEPS_PER_FLAP

\* Condition of the overshoot loop; s is what isAtHome() returns.
OvershootContinues(s, n) == s /\ n < STEPS_PER_FLAP

(***************************************************************************)
(* The step/direction/enable variant.  Its whole state is one record; each *)
(* operator below gives the record after the step of that variant which    *)
(* corresponds to one action of the model.  STEPS_PER_FLAP is the same     *)
(* parameter for both variants.                                            *)
(***************************************************************************)
B_NUM_FLAPS == 40
B_HOME_POSITION == 2

B_CHARACTERS ==
    <<32>> \o [k \in 1..26 |-> 64 + k] \o [k \in 1..10 |-> 47 + k]
           \o <<46, 45, 63, 33>> \o <<0>>

B_NUM_CHARACTERS == Len(B_CHARACTERS) - 1

\* State after the globals are initialised; enabled = MOTOR_ENABLE_PIN LOW.
B_Init ==
    [pos |-> 0 - 1, homed |-> FALSE, pc |-> "setup", target |-> 0,
     flaps |-> 0, i |-> 0, stepCount |-> 0, sensorSteps |-> 0,
     result |-> "none", units |-> 0, enabled |-> FALSE,
     report |-> NoReport]

\* Pulses made by for (i = 0; i < n; i++) stepMotor(); the direction pin is
\* set to forward once, in setup().
B_Pulses(n) == IF n > 0 THEN n ELSE 0

B_maxSteps == STEPS_PER_FLAP * B_NUM_FLAPS * 2

B_AdvancePosition(p) == IF p >= 0 THEN CRem(p + 1, B_NUM_FLAPS) ELSE p

B_FlapsToMove(t, p) == CRem(t - p + B_NUM_FLAPS, B_NUM_FLAPS)

\* Mutant of B_ResyncBound.
B_ResyncBoundShort(ii, t) == ii + B_FlapsToMove(t, B_HOME_POSITION)

B_ResyncBound(ii, t) == ii + 1 + B_FlapsToMove(t, B_HOME_POSITION)

RECURSIVE B_FindFrom(_, _)
B_FindFrom(c, k) ==
    IF k >= B_NUM_CHARACTERS THEN 0 - 1
    ELSE IF B_CHARACTERS[k + 1] = c THEN k
    ELSE B_FindFrom(c, k + 1)

B_ToUpper(c) == IF c >= 97 /\ c <= 122 THEN c - 97 + 65 ELSE c

\* homeDisplay up to the scan loop; s is what isAtHome() returns.
B_HomeEntry(r, s) ==
    [r EXCEPT !.pc = "home_scan", !.enabled = TRUE, !.result = "none",
              !.units = IF s THEN B_Pulses(STEPS_PER_FLAP * 2) ELSE 0,
              !.stepCount = 0, !.sensorSteps = 0]

\* One pass through the scan loop or the overshoot loop of homeDisplay,
\* or the code after them; s is what isAtHome() returns.
B_HomeStep(r, s) ==
    IF r.pc = "home_scan"
    THEN IF r.stepCount < B_maxSteps
         THEN IF s
              THEN [r EXCEPT !.pc = "home_overshoot", !.sensorSteps = 0]
              ELSE [r EXCEPT !.stepCount = @ + 1, !.units = @ + 1]
         ELSE [r EXCEPT !.homed = FALSE, !.pos = 0 - 1,
                        !.result = "HomingFailed", !.enabled = FALSE,
                        !.pc = "done"]
    ELSE IF s /\ r.sensorSteps < STEPS_PER_FLAP
         THEN [r EXCEPT !.sensorSteps = @ + 1, !.units = @ + 1]
         ELSE [r EXCEPT !.pos = B_HOME_POSITION, !.homed = TRUE,
                        !.result = "Homed", !.enabled = FALSE,
                        !.pc = "done"]

\* goToPosition(t) up to its loop.
B_GoToEntry(r, t) ==
    IF ~r.homed
    THEN [r EXCEPT !.target = t, !.result = "NotHomed", !.pc = "done"]
    ELSE IF t < 0 \/ t >= B_NUM_FLAPS
    THEN [r EXCEPT !.target = t, !.result = "PositionOutOfRange",
                   !.pc = "done"]
    ELSE IF B_FlapsToMove(t, r.pos) = 0
    THEN [r EXCEPT !.target = t, !.flaps = 0,
                   !.result = "AlreadyAtTarget", !.pc = "done"]
    ELSE [r EXCEPT !.target = t, !.flaps = B_FlapsToMove(t, r.pos),
                   !.result = "none", !.enabled = TRUE, !.pc = "move"]

\* One iteration of the move loop, or the code after it; s is what
\* isAtHome() returns after the advance.  The counters are kept as in
\* MoveFlap.
B_MoveStep(r, s) ==
    IF r.i < r.flaps
    THEN LET p1 == B_AdvancePosition(r.pos)
             fire == s /\ p1 # B_HOME_POSITION
             shift == IF r.i + 1 > MaxIter THEN 1 ELSE 0
         IN  [r EXCEPT
                !.pos = IF fire THEN B_HOME_POSITION ELSE p1,
                !.flaps = (IF fire THEN B_ResyncBound(r.i, r.target)
                                   ELSE r.flaps) - shift,
                !.i = r.i + 1 - shift,
                !.units = IF r.i < MaxIter
                          THEN @ + B_Pulses(STEPS_PER_FLAP)
                          ELSE @]
    ELSE [r EXCEPT !.pos = r.target, !.result = "Arrived",
                   !.enabled = FALSE, !.pc = "done"]

\* goToCharacter(c).
B_GoToCharacter(r, c) ==
    IF B_FindFrom(B_ToUpper(c), 0) < 0
    THEN [r EXCEPT !.target = 0 - 1, !.result = "CharacterNotFound",
                   !.pc = "done"]
    ELSE B_GoToEntry(r, B_FindFrom(B_ToUpper(c), 0))

\* showStatus; s is what isAtHome() returns.
B_ShowStatus(r, s) ==
    [r EXCEPT !.result = "Status", !.pc = "done",
              !.report = [homed |-> r.homed,
                          position |-> IF r.pos >= 0 THEN r.pos ELSE 0 - 1,
                          character |-> IF r.pos >= 0
                                        THEN B_CHARACTERS[r.pos + 1]
                                        ELSE 0 - 1,
                          sensor |-> s]]

\* loop(): the handler has returned.
B_Return(r) ==
    [r EXCEPT !.pc = "idle", !.target = 0, !.flaps = 0, !.i = 0,
              !.stepCount = 0, !.sensorSteps = 0, !.result = "none",
              !.units = 0, !.report = NoReport]

\* The step of the variant inside an operation: s is the sensor before the
\* step, s2 the sensor after it.
B_Next(r, s, s2) ==
    IF r.pc \in {"home_scan", "home_overshoot"} THEN B_HomeStep(r, s)
    ELSE IF r.pc = "move" THEN B_MoveStep(r, s2)
    ELSE IF r.pc = "done" THEN B_Return(r)
    ELSE r

\* The variant receives command cmd with argument a.
B_Call(r, cmd, a, s) ==
    IF r.pc \notin {"setup", "idle"} THEN B_Next(r, s, s)
    ELSE IF cmd = "home" THEN B_HomeEntry(r, s)
    ELSE IF cmd = "goToPosition" THEN B_GoToEntry(r, a)
    ELSE IF cmd = "goToCharacter" THEN B_GoToCharacter(r, a)
    ELSE B_ShowStatus(r, s)

(***************************************************************************)
(* State.                                                                  *)
(***************************************************************************)
VARIABLES
    currentPosition,  \* tracked flap, -1 = unknown
    isHomed,
    sensor,           \* the hall sensor line: TRUE = at home (LOW)
    pc,               \* where the program is
    op,               \* the operation in progress or just finished
    arg,              \* its argument (position or character code)
    targetPosition,   \* goToPosition: parameter
    flapsToMove,      \* goToPosition: loop bound
    i,                \* goToPosition: loop counter
    stepCount,        \* homeDisplay: scan counter
    sensorSteps,      \* homeDisplay: overshoot counter
    result,           \* outcome reported by the operation
    units,            \* forward motor steps issued by the operation
    backward,         \* backward motor steps issued by the operation
    advances,         \* advanceOneFlap calls of the operation
    sawHome,          \* some isAtHome() of the operation returned true
    lastRead,         \* value of the latest isAtHome() of the operation
    resynced,         \* the re-sync fired in the latest loop iteration
    resyncs,          \* re-syncs of the move (counted up to 2)
    sinceResync,      \* advanceOneFlap calls since the latest re-sync
    moveStart,        \* position at entry of the move while no check of the
                      \* move has read "at home"; -1 otherwise
    homed0,           \* isHomed at entry of the operation
    firstHomeAt,      \* scan: number of scan units after which the sensor
                      \* line first was at home; -1 if it never was
    reads,            \* isAtHome() calls of the operation
    report,           \* what showStatus printed
    b,                \* the step/direction/enable variant of the firmware,
                      \* run on the same commands and sensor readings
    drum              \* the drum, where it is followed: the flap that is
                      \* really in front (index) and how far it was ahead
                      \* of currentPosition when the operation began

locals == <<targetPosition, flapsToMove, i, stepCount, sensorSteps>>
ghosts == <<units, backward, advances, sawHome, lastRead, resynced, resyncs,
            sinceResync, moveStart, homed0, firstHomeAt, reads, report>>
vars == <<currentPosition, isHomed, sensor, pc, op, arg, result,
          locals, ghosts, b, drum>>

ClearLocals ==
    /\ targetPosition' = 0
    /\ flapsToMove' = 0
    /\ i' = 0
    /\ stepCount' = 0
    /\ sensorSteps' = 0

ClearGhosts ==
    /\ units' = 0
    /\ backward' = 0
    /\ advances' = 0
    /\ sawHome' = FALSE
    /\ lastRead' = FALSE
    /\ resynced' = FALSE
    /\ resyncs' = 0
    /\ sinceResync' = 0
    /\ moveStart' = 0 - 1
    /\ homed0' = FALSE
    /\ firstHomeAt' = 0 - 1
    /\ reads' = 0
    /\ report' = NoReport

Init ==
    /\ currentPosition = 0 - 1
    /\ isHomed = FALSE
    /\ sensor \in BOOLEAN
    /\ pc = "setup"
    /\ op = "none"
    /\ arg = 0
    /\ result = "none"
    /\ targetPosition = 0
    /\ flapsToMove = 0
    /\ i = 0
    /\ stepCount = 0
    /\ sensorSteps = 0
    /\ units = 0
    /\ backward = 0
    /\ advances = 0
    /\ sawHome = FALSE
    /\ lastRead = FALSE
    /\ resynced = FALSE
    /\ resyncs = 0
    /\ sinceResync = 0
    /\ moveStart = 0 - 1
    /\ homed0 = FALSE
    /\ firstHomeAt = 0 - 1
    /\ reads = 0
    /\ report = NoReport
    /\ b = B_Init
    /\ drum = NoDrum

\* Mutant of moveSteps: the direction test is inverted.
moveStepsReversed(steps) ==
    IF steps < 0 THEN <<0 - steps, 0>> ELSE <<0, steps>>

(***************************************************************************)
(* moveSteps(steps): positive = forward, otherwise backward.  Gives the    *)
(* pair of forward and backward steps made.                                *)
(***************************************************************************)
moveSteps(steps) ==
    IF steps > 0 THEN <<steps, 0>> ELSE <<0, 0 - steps>>

(***************************************************************************)
(* homeDisplay.                                                            *)
(***************************************************************************)
\* Entry: from setup() (auto-home) or from the H command.  If the sensor is
\* at home, move two flaps away without looking at it.
HomeDisplay ==
    /\ pc \in {"setup", "idle"}
    /\ op' = "home"
    /\ arg' = 0
    /\ result' = "none"
    /\ homed0' = isHomed
    /\ lastRead' = sensor
    /\ sawHome' = sensor
    /\ IF sensor
       THEN /\ units' = moveSteps(ExitSteps)[1]
            /\ backward' = moveSteps(ExitSteps)[2]
            /\ sensor' \in BOOLEAN
       ELSE /\ units' = 0
            /\ backward' = 0
            /\ sensor' = sensor
    /\ stepCount' = 0
    /\ sensorSteps' = 0
    /\ firstHomeAt' = IF sensor' THEN 0 ELSE 0 - 1
    /\ pc' = "home_scan"
    /\ reads' = 1
    /\ b' = B_Call(b, "home", 0, sensor)
    /\ drum' = drum
    /\ UNCHANGED <<currentPosition, isHomed, targetPosition, flapsToMove, i,
                   advances, resynced, resyncs, sinceResync, moveStart,
                   report>>

\* Scan loop, sensor not at home: one step forward.
HomeScanStep ==
    /\ pc = "home_scan"
    /\ stepCount < maxSteps
    /\ ~sensor
    /\ lastRead' = FALSE
    /\ sensor' \in BOOLEAN
    /\ stepCount' = stepCount + 1
    /\ units' = units + 1
    /\ firstHomeAt' = IF sensor' THEN stepCount' ELSE 0 - 1
    /\ b' = B_Next(b, sensor, sensor')
    /\ drum' = drum
    /\ UNCHANGED <<currentPosition, isHomed, pc, op, arg, result,
                   targetPosition, flapsToMove, i, sensorSteps, backward,
                   advances, sawHome, resynced, resyncs, sinceResync,
                   moveStart, homed0, report>>
    /\ reads' = reads + 1

\* Scan loop, sensor at home: found = true; break.
HomeScanFound ==
    /\ pc = "home_scan"
    /\ stepCount < maxSteps
    /\ sensor
    /\ lastRead' = TRUE
    /\ sawHome' = TRUE
    /\ sensorSteps' = 0
    /\ pc' = "home_overshoot"
    /\ b' = B_Next(b, sensor, sensor)
    /\ drum' = drum
    /\ UNCHANGED <<currentPosition, isHomed, sensor, op, arg, result,
                   targetPosition, flapsToMove, i, stepCount, units,
                   backward, advances, resynced, resyncs, sinceResync,
                   moveStart, homed0, firstHomeAt, report>>
    /\ reads' = reads + 1

\* Mutant of HomeScanExhausted: the position is not reset.
HomeScanExhaustedKeepsPosition ==
    /\ pc = "home_scan"
    /\ stepCount >= maxSteps
    /\ isHomed' = FALSE
    /\ result' = "HomingFailed"
    /\ pc' = "done"
    /\ b' = B_Next(b, sensor, sensor)
    /\ drum' = drum
    /\ UNCHANGED <<currentPosition, sensor, op, arg, locals, ghosts>>

\* Scan loop left with found = false: homing failed.
HomeScanExhausted ==
    /\ pc = "home_scan"
    /\ stepCount >= maxSteps
    /\ isHomed' = FALSE
    /\ currentPosition' = 0 - 1
    /\ result' = "HomingFailed"
    /\ pc' = "done"
    /\ b' = B_Next(b, sensor, sensor)
    /\ drum' = drum
    /\ UNCHANGED <<sensor, op, arg, locals, ghosts>>

\* Overshoot loop: while (isAtHome() && sensorSteps < STEPS_PER_FLAP).
HomeOvershootStep ==
    /\ pc = "home_overshoot"
    /\ OvershootContinues(sensor, sensorSteps)
    /\ lastRead' = TRUE
    /\ sensor' \in BOOLEAN
    /\ sensorSteps' = sensorSteps + 1
    /\ b' = B_Next(b, sensor, sensor')
    /\ drum' = drum
    /\ units' = units + 1
    /\ UNCHANGED <<currentPosition, isHomed, pc, op, arg, result,
                   targetPosition, flapsToMove, i, stepCount, backward,
                   advances, sawHome, resynced, resyncs, sinceResync,
                   moveStart, homed0, firstHomeAt, report>>
    /\ reads' = reads + 1

\* Overshoot loop left: the position is declared to be HOME_POSITION.
HomeFinish ==
    /\ pc = "home_overshoot"
    /\ ~OvershootContinues(sensor, sensorSteps)
    /\ lastRead' = sensor
    /\ currentPosition' = HOME_POSITION
    /\ isHomed' = TRUE
    /\ result' = "Homed"
    /\ pc' = "done"
    /\ b' = B_Next(b, sensor, sensor)
    /\ drum' = drum
    /\ UNCHANGED <<sensor, op, arg, locals, units, backward, advances,
                   sawHome, resynced, resyncs, sinceResync, moveStart,
                   homed0, firstHomeAt, report>>
    /\ reads' = reads + 1

(***************************************************************************)
(* goToPosition.                                                           *)
(***************************************************************************)
\* The part of goToPosition(t) before its loop.
GoToEntry(t) ==
    /\ targetPosition' = t
    /\ homed0' = isHomed
    /\ UNCHANGED <<currentPosition, isHomed, sensor, stepCount, sensorSteps,
                   units, backward, advances, sawHome, lastRead, resynced,
                   resyncs, sinceResync, firstHomeAt, i, reads, report>>
    /\ IF Precheck(isHomed, t) # "ok"
       THEN /\ result' = Precheck(isHomed, t)
            /\ pc' = "done"
            /\ UNCHANGED <<flapsToMove, moveStart>>
       ELSE /\ flapsToMove' = FlapsToMove(t, currentPosition)
            /\ moveStart' = currentPosition
            /\ IF flapsToMove' = 0
               THEN /\ result' = "AlreadyAtTarget"
                    /\ pc' = "done"
               ELSE /\ result' = "none"
                    /\ pc' = "move"

\* The P command.
GoToPosition ==
    /\ pc = "idle"
    /\ \E t \in TargetInputs :
          /\ op' = "goToPosition"
          /\ arg' = t
          /\ GoToEntry(t)
          /\ b' = B_Call(b, "goToPosition", t, sensor)
          /\ drum' = drum

\* One iteration of the move loop: advance one flap, check the sensor,
\* re-sync if it is at home and the tracked position is not HOME_POSITION.
\* The loop uses i and flapsToMove only through i < flapsToMove and
\* i + 1 + remaining; beyond MaxIter both are shifted down together.
MoveFlapBody ==
    /\ pc = "move"
    /\ i < flapsToMove
    /\ sensor' \in BOOLEAN
    /\ LET p1 == AdvancePosition(currentPosition)
           fire == sensor' /\ p1 # HOME_POSITION
           shift == IF i + 1 > MaxIter THEN 1 ELSE 0
       IN  /\ currentPosition' = IF fire THEN HOME_POSITION ELSE p1
           /\ flapsToMove' = (IF fire THEN ResyncBound(i, targetPosition)
                                      ELSE flapsToMove) - shift
           /\ i' = i + 1 - shift
           /\ resynced' = fire
           /\ resyncs' = IF fire /\ resyncs < 2 THEN resyncs + 1 ELSE resyncs
           /\ sinceResync' = IF fire THEN 0 ELSE Sat(sinceResync + 1)
    /\ units' = IF advances < MaxIter
                THEN units + moveSteps(STEPS_PER_FLAP)[1]
                ELSE units
    /\ backward' = backward + moveSteps(STEPS_PER_FLAP)[2]
    /\ advances' = Sat(advances + 1)
    /\ lastRead' = sensor'
    /\ sawHome' = (sawHome \/ sensor')
    /\ moveStart' = IF sensor' THEN 0 - 1 ELSE moveStart
    /\ reads' = Sat(reads + 1)
    /\ b' = B_Next(b, sensor, sensor')
    /\ UNCHANGED <<isHomed, pc, op, arg, result, targetPosition, stepCount,
                   sensorSteps, homed0, firstHomeAt, report>>

\* The move loop when the drum is not followed.
MoveFlap ==
    /\ MoveFlapBody
    /\ drum' = drum

\* Loop left: motorOff(); currentPosition = targetPosition.
MoveDone ==
    /\ pc = "move"
    /\ i >= flapsToMove
    /\ currentPosition' = targetPosition
    /\ result' = "Arrived"
    /\ pc' = "done"
    /\ b' = B_Next(b, sensor, sensor)
    /\ drum' = drum
    /\ UNCHANGED <<isHomed, sensor, op, arg, locals, ghosts>>

(***************************************************************************)
(* goToCharacter: the G command.                                           *)
(***************************************************************************)
\* goToCharacter(c).
GoToCharacterCall(c) ==
    IF FindCharacter(ToUpper(c)) < 0
    THEN /\ result' = "CharacterNotFound"
         /\ pc' = "done"
         /\ targetPosition' = 0 - 1
         /\ homed0' = isHomed
         /\ UNCHANGED <<currentPosition, isHomed, sensor, flapsToMove, i,
                        stepCount, sensorSteps, units, backward, advances,
                        sawHome, lastRead, resynced, resyncs, sinceResync,
                        moveStart, firstHomeAt, reads, report>>
    ELSE GoToEntry(FindCharacter(ToUpper(c)))

GoToCharacter ==
    /\ pc = "idle"
    /\ \E c \in CharInputs :
          /\ op' = "goToCharacter"
          /\ arg' = c
          /\ GoToCharacterCall(c)
          /\ b' = B_Call(b, "goToCharacter", c, sensor)
          /\ drum' = drum

(***************************************************************************)
(* showStatus: the S command.                                              *)
(***************************************************************************)
ShowStatus ==
    /\ pc = "idle"
    /\ op' = "status"
    /\ arg' = 0
    /\ result' = "Status"
    /\ report' = StatusReport(isHomed, currentPosition, sensor)
    /\ reads' = 1
    /\ lastRead' = sensor
    /\ sawHome' = sensor
    /\ homed0' = isHomed
    /\ pc' = "done"
    /\ b' = B_Call(b, "status", 0, sensor)
    /\ drum' = drum
    /\ UNCHANGED <<currentPosition, isHomed, sensor, locals, units, backward,
                   advances, resynced, resyncs, sinceResync, moveStart,
                   firstHomeAt>>

(***************************************************************************)
(* loop(): the handler has returned; wait for the next command.            *)
(***************************************************************************)
ReturnBody ==
    /\ pc = "done"
    /\ pc' = "idle"
    /\ op' = "none"
    /\ arg' = 0
    /\ result' = "none"
    /\ ClearLocals
    /\ ClearGhosts
    /\ b' = B_Next(b, sensor, sensor)
    /\ UNCHANGED <<currentPosition, isHomed, sensor>>

Return ==
    /\ ReturnBody
    /\ drum' = drum

Next ==
    \/ HomeDisplay
    \/ HomeScanStep
    \/ HomeScanFound
    \/ HomeScanExhausted
    \/ HomeOvershootStep
    \/ HomeFinish
    \/ GoToPosition
    \/ MoveFlap
    \/ MoveDone
    \/ GoToCharacter
    \/ ShowStatus
    \/ Return

Spec == Init /\ [][Next]_vars

\* The program is sequential and blocking: a step that can be taken is taken.
FairSpec == Spec /\ WF_vars(Next)

(***************************************************************************)
(* Moves against a drum that is followed.  One single-flap advance turns   *)
(* the drum by one flap, and the sensor is at home exactly when flap       *)
(* HOME_POSITION is in front.  The controller is homed and idle; the flap  *)
(* in front is any flap, so that the tracked position may be right or off  *)
(* by any amount (steps lost or gained before).                            *)
(***************************************************************************)
\* The flap in front after one single-flap advance.
DrumAdvance(k) == (k + 1) % NUM_FLAPS

\* The sensor line for the flap in front.
DrumAtHome(k) == k = HOME_POSITION

\* How far the flap in front is ahead of the tracked position.
Drift(k, p) == (k - p) % NUM_FLAPS

DrumInit ==
    /\ currentPosition \in 0 .. (NUM_FLAPS - 1)
    /\ isHomed = TRUE
    /\ \E k \in 0 .. (NUM_FLAPS - 1) :
          drum = [index |-> k, drift0 |-> Drift(k, currentPosition)]
    /\ sensor = DrumAtHome(drum.index)
    /\ pc = "idle"
    /\ op = "none"
    /\ arg = 0
    /\ result = "none"
    /\ targetPosition = 0
    /\ flapsToMove = 0
    /\ i = 0
    /\ stepCount = 0
    /\ sensorSteps = 0
    /\ units = 0
    /\ backward = 0
    /\ advances = 0
    /\ sawHome = FALSE
    /\ lastRead = FALSE
    /\ resynced = FALSE
    /\ resyncs = 0
    /\ sinceResync = 0
    /\ moveStart = 0 - 1
    /\ homed0 = FALSE
    /\ firstHomeAt = 0 - 1
    /\ reads = 0
    /\ report = NoReport
    /\ b = [B_Init EXCEPT !.pc = "idle", !.homed = TRUE,
                          !.pos = currentPosition]

\* One iteration of the move loop; the advance turns the drum.
DrumMoveFlap ==
    /\ MoveFlapBody
    /\ drum' = [drum EXCEPT !.index = DrumAdvance(@)]
    /\ sensor' = DrumAtHome(drum'.index)

\* The handler has returned; the next operation begins with the drift that
\* is left.
DrumReturn ==
    /\ ReturnBody
    /\ drum' = [drum EXCEPT !.drift0 = Drift(drum.index, currentPosition)]

DrumNext ==
    \/ GoToPosition
    \/ DrumMoveFlap
    \/ MoveDone
    \/ DrumReturn

DrumSpec == DrumInit /\ [][DrumNext]_vars

(***************************************************************************)
(* Properties.                                                             *)
(***************************************************************************)
Mod(a) == a % NUM_FLAPS

Succeeded == result \in {"Arrived", "AlreadyAtTarget"}

\* C1: a move from position p to a valid target t during which no sensor
\* check reads "at home" makes exactly (t - p + NUM_FLAPS) mod NUM_FLAPS
\* single-flap advances of STEPS_PER_FLAP forward steps each, and ends with
\* Position = t, Homed = true and status showing CharacterSet[t].
C1_DriftFreeMove ==
    (/\ pc = "done"
     /\ op = "goToPosition"
     /\ homed0
     /\ arg \in 0 .. (NUM_FLAPS - 1)
     /\ ~sawHome)
    => /\ Succeeded
       /\ advances = Mod(arg - moveStart + NUM_FLAPS)
       /\ units = advances * STEPS_PER_FLAP
       /\ backward = 0
       /\ currentPosition = arg
       /\ isHomed
       /\ StatusCharacter(currentPosition) = CHARACTERS[arg + 1]

\* C1 witness: a finished drift-free move that wrapped around the drum.
C1_Witness ==
    /\ pc = "done"
    /\ op = "goToPosition"
    /\ result = "Arrived"
    /\ ~sawHome
    /\ arg < moveStart
    /\ advances = NUM_FLAPS - 1

\* C2: at every head of the move loop the iterations left equal the forward
\* distance from the tracked position to the target; an iteration in which
\* the re-sync fired leaves Position = HOME_POSITION; and when the loop is
\* left after exactly one re-sync, (t - HOME_POSITION + NUM_FLAPS) mod
\* NUM_FLAPS advances were made since it and the tracked position already
\* is the target.
C2_ResyncCounts ==
    pc = "move" =>
       /\ flapsToMove - i = Mod(targetPosition - currentPosition + NUM_FLAPS)
       /\ resynced => (currentPosition = HOME_POSITION /\ sinceResync = 0)
       /\ (i >= flapsToMove /\ resyncs = 1) =>
             /\ sinceResync = Mod(targetPosition - HOME_POSITION + NUM_FLAPS)
             /\ currentPosition = targetPosition

\* C2 witness: the loop is left after a move to 10 that re-synced once after
\* its third advance and made 8 more.
C2_Witness ==
    /\ pc = "move"
    /\ i >= flapsToMove
    /\ resyncs = 1
    /\ targetPosition = 10
    /\ sinceResync = 8
    /\ advances = 11

\* C3: if the sensor line first is at home after the k-th scan unit, for any
\* k from 1 to the scan budget, home() ends with Homed = true and
\* Position = HOME_POSITION.
C3_ScanFindsHome ==
    (/\ pc = "done"
     /\ op = "home"
     /\ firstHomeAt \in 1 .. (STEPS_PER_FLAP * NUM_FLAPS * 2))
    => (isHomed /\ currentPosition = HOME_POSITION)

\* C4: if no sensor check of home() reads "at home", home() makes exactly
\* STEPS_PER_FLAP * NUM_FLAPS * 2 forward steps and ends with Homed = false
\* and Position = -1.
C4_HomingFails ==
    (/\ pc = "done"
     /\ op = "home"
     /\ ~sawHome)
    => /\ result = "HomingFailed"
       /\ units = STEPS_PER_FLAP * NUM_FLAPS * 2
       /\ backward = 0
       /\ ~isHomed
       /\ currentPosition = 0 - 1

\* C4 witness: a failed home() of a controller that was homed before.
C4_Witness ==
    /\ pc = "done"
    /\ op = "home"
    /\ ~sawHome
    /\ homed0
    /\ ~isHomed

InCharacterSet(c) == \E k \in 1 .. NUM_CHARACTERS : CHARACTERS[k] = c

FirstIndex(c) ==
    CHOOSE k \in 0 .. (NUM_CHARACTERS - 1) :
       /\ CHARACTERS[k + 1] = c
       /\ \A j \in 0 .. (k - 1) : CHARACTERS[j + 1] # c

\* C5: for every character of the character set, goToCharacter in a homed
\* controller does not fail and ends with Position at the first index of
\* the character, so that status shows it.
C5_EveryCharacterReachable ==
    (/\ pc = "done"
     /\ op = "goToCharacter"
     /\ homed0
     /\ InCharacterSet(arg))
    => /\ Succeeded
       /\ currentPosition = FirstIndex(arg)
       /\ StatusCharacter(currentPosition) = arg

\* C6: a move whose preconditions passed runs to completion and ends with
\* Position = target and Homed = true, whatever the sensor reads.
C6_MoveCompletes ==
    (pc = "move" /\ op = "goToPosition") ~>
       (/\ pc = "done"
        /\ result = "Arrived"
        /\ currentPosition = targetPosition
        /\ isHomed)

\* C7: after an iteration of the move loop in which the re-sync fired, the
\* re-sync does not fire in the next iteration.
C7_ResyncOncePerPass ==
    [][(pc = "move" /\ pc' = "move" /\ resynced) => ~resynced']_vars

C9_NotHomed ==
    [][(/\ pc = "idle"
        /\ ~isHomed
        /\ op' = "goToPosition")
       => /\ pc' = "done"
          /\ result' = "NotHomed"
          /\ units' = 0
          /\ backward' = 0
          /\ advances' = 0
          /\ currentPosition = 0 - 1
          /\ currentPosition' = 0 - 1
          /\ isHomed' = FALSE]_vars

\* C9 witness: goToPosition with a valid target was refused after a home()
\* (the idle state is only reached by returning from one).
C9_Witness ==
    /\ pc = "done"
    /\ op = "goToPosition"
    /\ arg \in 0 .. (NUM_FLAPS - 1)
    /\ result = "NotHomed"
    /\ ~isHomed

OutOfRange(t) == t < 0 \/ t >= NUM_FLAPS

\* C10 as stated: goToPosition(target) with target outside [0, NUM_FLAPS)
\* fails with PositionOutOfRange in every state.
C10_OutOfRangeAlways ==
    [][(/\ pc = "idle"
        /\ op' = "goToPosition"
        /\ OutOfRange(arg'))
       => result' = "PositionOutOfRange"]_vars

\* C10 amended: with Homed = true, goToPosition(target) with target outside
\* [0, NUM_FLAPS) fails with PositionOutOfRange, makes no motor step and
\* leaves Position and Homed unchanged.
C10_OutOfRange ==
    [][(/\ pc = "idle"
        /\ isHomed
        /\ op' = "goToPosition"
        /\ OutOfRange(arg'))
       => /\ pc' = "done"
          /\ result' = "PositionOutOfRange"
          /\ units' = 0
          /\ backward' = 0
          /\ advances' = 0
          /\ currentPosition' = currentPosition
          /\ isHomed' = isHomed]_vars

\* C10 witness: a homed controller refused target NUM_FLAPS.
C10_Witness ==
    /\ pc = "done"
    /\ op = "goToPosition"
    /\ arg = NUM_FLAPS
    /\ result = "PositionOutOfRange"
    /\ isHomed
    /\ currentPosition \in 0 .. (NUM_FLAPS - 1)

UpperOf(c) == IF c \in 97 .. 122 THEN c - 32 ELSE c

NoMotion == units' = 0 /\ backward' = 0 /\ advances' = 0

\* C11: goToCharacter(c) for a character that is not in the character set
\* after case normalisation fails with CharacterNotFound, makes no motor
\* step and leaves Position and Homed unchanged, homed or not.
C11_CharacterNotFound ==
    [][(/\ pc = "idle"
        /\ op' = "goToCharacter"
        /\ ~InCharacterSet(UpperOf(arg')))
       => /\ pc' = "done"
          /\ result' = "CharacterNotFound"
          /\ NoMotion
          /\ currentPosition' = currentPosition
          /\ isHomed' = isHomed]_vars

\* C11 witness: a homed controller refused '#'.
C11_Witness ==
    /\ pc = "done"
    /\ op = "goToCharacter"
    /\ arg = 35
    /\ result = "CharacterNotFound"
    /\ isHomed
    /\ currentPosition = HOME_POSITION

\* C12: the step goToCharacter takes for a lowercase letter is the step it
\* takes for the uppercase letter from the same state: same resolved target
\* (the index of the uppercase letter), same outcome, same loop bound.  The
\* rest of the operation depends on that state and the sensor only.
C12_CaseInsensitive ==
    [][(/\ pc = "idle"
        /\ op' = "goToCharacter"
        /\ arg' \in 97 .. 122)
       => /\ GoToCharacterCall(arg' - 32)
          /\ targetPosition' = FirstIndex(arg' - 32)]_vars

\* C12 witness: goToCharacter('z') arrived at the index of 'Z'.
C12_Witness ==
    /\ pc = "done"
    /\ op = "goToCharacter"
    /\ arg = 122
    /\ result = "Arrived"
    /\ currentPosition = 26

\* C13: status() leaves Position and Homed unchanged, makes no motor step,
\* reports the value the sensor has at the call, and reports position and
\* character as unknown exactly when Position is unknown (the number and
\* CharacterSet[Position] otherwise).
C13_StatusIsPure ==
    [][(pc = "idle" /\ op' = "status")
       => /\ pc' = "done"
          /\ currentPosition' = currentPosition
          /\ isHomed' = isHomed
          /\ sensor' = sensor
          /\ NoMotion
          /\ report'.homed = isHomed
          /\ report'.sensor = sensor
          /\ (report'.position = 0 - 1) <=> (currentPosition = 0 - 1)
          /\ (report'.character = 0 - 1) <=> (currentPosition = 0 - 1)
          /\ currentPosition # 0 - 1 =>
                /\ report'.position = currentPosition
                /\ report'.character = CHARACTERS[currentPosition + 1]]_vars

\* C13 witness: status of an unhomed controller with the sensor at home.
C13_Witness ==
    /\ pc = "done"
    /\ op = "status"
    /\ report.sensor
    /\ ~report.homed
    /\ report.position = 0 - 1
    /\ report.character = 0 - 1

HomeUnitsBound ==
    2 * STEPS_PER_FLAP + 2 * STEPS_PER_FLAP * NUM_FLAPS + STEPS_PER_FLAP

\* C16: home() returns whatever the sensor reads, and never issues more
\* than 2*STEPS_PER_FLAP + 2*STEPS_PER_FLAP*NUM_FLAPS + STEPS_PER_FLAP
\* forward steps.
C16_HomeTerminates ==
    /\ [](op = "home" => units <= HomeUnitsBound)
    /\ (pc \in {"home_scan", "home_overshoot"}) ~> (pc = "done" /\ op = "home")

\* C16 witness: the longest successful home(): exit move, detection at the
\* last check of the scan, full overshoot.
C16_Witness ==
    /\ pc = "done"
    /\ op = "home"
    /\ result = "Homed"
    /\ units = HomeUnitsBound - 1

\* C17: after the scan found the sensor, home() reads the sensor before
\* each overshoot unit and stops at the first reading "not at home" or after
\* STEPS_PER_FLAP units; a successful home() returns with the last reading
\* "not at home" or exactly STEPS_PER_FLAP overshoot units, and with
\* Position = HOME_POSITION.
C17_Overshoot ==
    /\ pc = "home_overshoot" =>
          /\ sensorSteps <= STEPS_PER_FLAP
          /\ reads = stepCount + sensorSteps + 2
    /\ (pc = "done" /\ op = "home" /\ result = "Homed") =>
          /\ ~lastRead \/ sensorSteps = STEPS_PER_FLAP
          /\ sensorSteps <= STEPS_PER_FLAP
          /\ reads = stepCount + sensorSteps + 3
          /\ currentPosition = HOME_POSITION
          /\ isHomed

\* C17 witness: home() returned after a full overshoot with the sensor still
\* at home.
C17_Witness ==
    /\ pc = "done"
    /\ op = "home"
    /\ result = "Homed"
    /\ lastRead
    /\ sensorSteps = STEPS_PER_FLAP

\* C18: home() reads the sensor once at entry; if it is at home the scan
\* starts after exactly 2*STEPS_PER_FLAP forward steps and no further
\* reading, otherwise it starts with no step made.
C18_ExitMove ==
    [][(pc \in {"setup", "idle"} /\ op' = "home")
       => /\ pc' = "home_scan"
          /\ stepCount' = 0
          /\ reads' = 1
          /\ backward' = 0
          /\ units' = IF sensor THEN 2 * STEPS_PER_FLAP ELSE 0]_vars

\* C18 witness: the scan is about to start after the exit move.
C18_Witness ==
    /\ pc = "home_scan"
    /\ stepCount = 0
    /\ reads = 1
    /\ lastRead
    /\ units = 2 * STEPS_PER_FLAP

\* C19: between operations Homed = true iff Position is in [0, NUM_FLAPS)
\* and Homed = false iff Position = -1; Homed turns from false to true only
\* where home() succeeds.
C19_HomedIffKnown ==
    /\ [](pc \in {"setup", "idle", "done"} =>
             /\ isHomed <=> currentPosition \in 0 .. (NUM_FLAPS - 1)
             /\ ~isHomed <=> currentPosition = 0 - 1)
    /\ [][(~isHomed /\ isHomed') =>
             (op = "home" /\ pc = "home_overshoot" /\ result' = "Homed")]_vars

\* C19 witness: home() made an unhomed controller homed.
C19_Witness ==
    /\ pc = "done"
    /\ op = "home"
    /\ ~homed0
    /\ isHomed
    /\ currentPosition = HOME_POSITION

\* C20: with Homed = false, goToPosition with a target out of range reports
\* NotHomed; goToCharacter reports CharacterNotFound for a character that is
\* not in the set and NotHomed for one that is; each call reports one error
\* and makes no motor step.
C20_ErrorPrecedence ==
    [][(pc = "idle" /\ ~isHomed) =>
          /\ (op' = "goToPosition" /\ OutOfRange(arg')) =>
                (pc' = "done" /\ result' = "NotHomed" /\ NoMotion)
          /\ (op' = "goToCharacter" /\ ~InCharacterSet(UpperOf(arg'))) =>
                (pc' = "done" /\ result' = "CharacterNotFound" /\ NoMotion)
          /\ (op' = "goToCharacter" /\ InCharacterSet(UpperOf(arg'))) =>
                (pc' = "done" /\ result' = "NotHomed" /\ NoMotion)]_vars

\* C20 witness: an unhomed controller answered NotHomed to a target out of
\* range.
C20_Witness ==
    /\ pc = "done"
    /\ op = "goToPosition"
    /\ OutOfRange(arg)
    /\ result = "NotHomed"
    /\ ~isHomed

\* C15: run on the same commands and the same sensor readings, with the
\* same STEPS_PER_FLAP, the step/direction/enable variant is at the same
\* place as the unipolar variant after every step, with the same Position
\* and Homed, the same outcome, the same status report and the same number
\* of forward steps.
C15_VariantsAgree ==
    /\ b.pc = pc
    /\ b.pos = currentPosition
    /\ b.homed = isHomed
    /\ b.result = result
    /\ b.units = units
    /\ b.report = report

\* C15 witness: both variants have finished a move that re-synced once.
C15_Witness ==
    /\ pc = "done"
    /\ b.pc = "done"
    /\ op = "goToPosition"
    /\ result = "Arrived"
    /\ resyncs = 1
    /\ b.units = units
    /\ units > STEPS_PER_FLAP
    /\ b.pos = arg

MoveEnded == pc = "done" /\ op = "goToPosition" /\ Succeeded

\* C21: against a drum whose flap in front advances by one per single-flap
\* advance and whose sensor is at home exactly at flap HOME_POSITION:
\* (a) a move that starts with the tracked position right never re-syncs
\* and ends with flap t in front; (b) a move that starts with it wrong and
\* re-syncs does so exactly once and ends with flap t in front; (c) a move
\* that starts with it wrong and never reads "at home" ends with the same
\* drift it started with, and Position = t.
C21_SelfHealing ==
    /\ (op = "goToPosition" /\ drum.drift0 = 0) =>
          /\ resyncs = 0
          /\ MoveEnded => drum.index = arg
    /\ (MoveEnded /\ drum.drift0 # 0 /\ resyncs >= 1) =>
          /\ resyncs = 1
          /\ drum.index = arg
    /\ (MoveEnded /\ drum.drift0 # 0 /\ ~sawHome) =>
          /\ resyncs = 0
          /\ Drift(drum.index, currentPosition) = drum.drift0
          /\ currentPosition = arg

\* C21 witness: a move that began with the tracked position wrong, re-synced
\* and ended on the target with flaps still to make after the re-sync.
C21_Witness ==
    /\ MoveEnded
    /\ drum.drift0 # 0
    /\ resyncs = 1
    /\ sinceResync > 0
    /\ drum.index = arg
    /\ currentPosition = arg

====
